---- MODULE Spec2Model ----
(***************************************************************************)
(* avicore: a batch media CLI that drives an external ffmpeg binary.       *)
(* The model covers one process run of src/app.py: the cli() group         *)
(* callback, the six commands, the per-file loop bodies, the interrupt     *)
(* handler, and the pure helpers (suggest_path, backup_original,           *)
(* expand_inputs, the quality mapping of image compress).                  *)
(*                                                                         *)
(* Paths.  A path string is [prefix, base, sfx, ext]: prefix is how the    *)
(* working directory is spelled ("" , "./" or "/cwd/"), base_sfx1_sfx2.ext *)
(* is the file name.  pathlib.Path drops "./" but keeps an absolute        *)
(* prefix, so a Path is [abs, base, sfx, ext].  Every path of the model    *)
(* lives in the working directory; its backup directory is ./backup.       *)
(* The directory is a function from file names to contents; a content is   *)
(* [of, xf]: the file it originally was and how many times it went through *)
(* the external binary.                                                    *)
(***************************************************************************)
EXTENDS Integers, Sequences, FiniteSets, TLC

\* ------------------------------------------------------------------------
\* Bounds of the model
\* ------------------------------------------------------------------------

\* longest list of input patterns given on the command line
MaxPatterns == 2

\* highest numeric suffix (_1, _2, ...) a file of the initial directory has
MaxSuffix == 2

\* longest pattern list of the input-expansion specification
MaxExpand == 3

\* the quality option ranges over 0..MaxQuality in the quality specification
MaxQuality == 100

\* ------------------------------------------------------------------------
\* Program constants
\* ------------------------------------------------------------------------

IMAGE_FORMATS == {"jpg", "jpeg", "png", "webp", "bmp"}

VIDEO_FORMATS == {"mp4", "mkv", "mov", "avi", "webm"}

AUDIO_FORMATS == {"mp3", "wav", "aac", "flac", "ogg"}

\* exit status of the interrupt handler
EXIT_INTERRUPT == 130

\* default of the --quality option
DEFAULT_QUALITY == 60

\* clamp range and divisor of the quality mapping
Q_MIN == 2

Q_MAX == 31

Q_DIV == 3

Q_TOP == 100

\* ------------------------------------------------------------------------
\* Paths
\* ------------------------------------------------------------------------

Name(base, sfx, ext) == [base |-> base, sfx |-> sfx, ext |-> ext]

\* the directory entry a Path denotes
NameOf(p) == [base |-> p.base, sfx |-> p.sfx, ext |-> p.ext]

\* pathlib.Path(str): "./" is dropped, an absolute prefix is kept
Path(s) == [abs |-> (s.prefix = "/cwd/"), base |-> s.base, sfx |-> s.sfx, ext |-> s.ext]

\* str(Path)
Str(p) == [prefix |-> (IF p.abs THEN "/cwd/" ELSE ""), base |-> p.base, sfx |-> p.sfx, ext |-> p.ext]

\* Path.exists() against a directory d (a function from names to contents)
Exists(p, d) == NameOf(p) \in DOMAIN d

\* src.with_name(src.stem + "." + format)
WithFormat(p, format) == [p EXCEPT !.ext = format]

\* src.with_suffix(".mp3")
WithSuffixMp3(p) == [p EXCEPT !.ext = "mp3"]

\* parent / f"{base}_{idx}{suffix}"
Candidate(p, idx) == [p EXCEPT !.sfx = Append(p.sfx, idx)]

\* ------------------------------------------------------------------------
\* suggest_path
\* ------------------------------------------------------------------------

RECURSIVE SuggestFrom(_, _, _)
SuggestFrom(p, idx, d) ==
    LET candidate == Candidate(p, idx)
    IN  IF ~Exists(candidate, d) THEN candidate ELSE SuggestFrom(p, idx + 1, d)

\* a suggest_path that returns its first candidate without looking at the disk
suggest_path_nocheck(p, d) == Candidate(p, 1)

suggest_path(p, d) == SuggestFrom(p, 1, d)

\* ------------------------------------------------------------------------
\* backup_original: the name the source gets inside the backup directory
\* ------------------------------------------------------------------------

RECURSIVE BackupTargetFrom(_, _, _, _)
BackupTargetFrom(src, target, counter, b) ==
    IF target \in DOMAIN b
    THEN BackupTargetFrom(src, NameOf(Candidate(src, counter)), counter + 1, b)
    ELSE target

BackupTarget(src, b) == BackupTargetFrom(src, NameOf(src), 1, b)

\* ------------------------------------------------------------------------
\* expand_inputs
\* ------------------------------------------------------------------------

\* the order in which the directory lists a set of names
RECURSIVE Listing(_)
Listing(S) ==
    IF S = {} THEN <<>>
    ELSE LET n == CHOOSE x \in S : TRUE IN <<n>> \o Listing(S \ {n})

Spell(prefix, n) == [prefix |-> prefix, base |-> n.base, sfx |-> n.sfx, ext |-> n.ext]

RECURSIVE SpellAll(_, _)
SpellAll(prefix, ns) ==
    IF ns = <<>> THEN <<>> ELSE <<Spell(prefix, Head(ns))>> \o SpellAll(prefix, Tail(ns))

\* glob.glob(item): a wildcard "<prefix>*.<ext>" lists the matching names with
\* the pattern's prefix; a literal matches itself when it exists
Glob(item, d) ==
    IF item.kind = "glob"
    THEN SpellAll(item.prefix, Listing({n \in DOMAIN d : n.ext = item.ext}))
    ELSE IF Exists(Path(item.path), d) THEN <<item.path>> ELSE <<>>

RECURSIVE Collect(_, _)
Collect(inputs, d) ==
    IF inputs = <<>> THEN <<>>
    ELSE LET item == Head(inputs)
             matches == Glob(item, d)
             found == IF matches # <<>> THEN matches
                      ELSE IF item.kind = "lit" /\ Exists(Path(item.path), d)
                           THEN <<Str(Path(item.path))>>
                           ELSE <<>>
         IN  found \o Collect(Tail(inputs), d)

RECURSIVE PathAll(_)
PathAll(ss) == IF ss = <<>> THEN <<>> ELSE <<Path(Head(ss))>> \o PathAll(Tail(ss))

InSeq(x, s) == \E i \in 1..Len(s) : s[i] = x

\* list(dict.fromkeys(...)): first occurrences, in order
RECURSIVE FromKeys(_, _)
FromKeys(ps, seen) ==
    IF ps = <<>> THEN seen
    ELSE FromKeys(Tail(ps), IF InSeq(Head(ps), seen) THEN seen ELSE Append(seen, Head(ps)))

expand_inputs(inputs, d) == FromKeys(PathAll(Collect(inputs, d)), <<>>)

\* ------------------------------------------------------------------------
\* The quality mapping of image compress
\* ------------------------------------------------------------------------

Max(a, b) == IF a >= b THEN a ELSE b

Min(a, b) == IF a <= b THEN a ELSE b

\* int(n / d) for d > 0: the quotient truncated toward zero
IntDiv(n, d) == IF n >= 0 THEN n \div d ELSE -((-n) \div d)

\* a mapping that rounds to nearest instead of truncating
QualityArgRounded(quality) ==
    Max(Q_MIN, Min(Q_MAX, IntDiv(2 * (Q_TOP - quality) + Q_DIV, 2 * Q_DIV)))

\* q = max(2, min(31, int((100 - quality) / 3)))
QualityArg(quality) == Max(Q_MIN, Min(Q_MAX, IntDiv(Q_TOP - quality, Q_DIV)))

\* ------------------------------------------------------------------------
\* Command builder: the argument vector handed to the external binary
\* ------------------------------------------------------------------------

Argv(s, opts, d) == [src |-> Str(s), opts |-> opts, dst |-> Str(d)]

VideoConvertCmd(s, d, isFast) ==
    IF isFast THEN Argv(s, <<"-map", "0", "-c", "copy">>, d)
    ELSE Argv(s, <<"-map", "0", "-c:v", "libx264", "-c:a", "aac", "-movflags", "+faststart">>, d)

VideoMuteCmd(s, d) == Argv(s, <<"-map", "0", "-an", "-c:v", "copy", "-c:s", "copy">>, d)

ImageConvertCmd(s, d) == Argv(s, <<>>, d)

ImageCompressCmd(s, d, q) ==
    IF s.ext = "png" THEN Argv(s, <<"-compression_level", "9">>, d)
    ELSE Argv(s, <<"-q:v", ToString(QualityArg(q))>>, d)

AudioExtractCmd(s, d) == Argv(s, <<"-vn", "-ab", "192k", "-map", "a">>, d)

AudioConvertCmd(s, d) == Argv(s, <<>>, d)

NoCmd == Argv([abs |-> FALSE, base |-> "", sfx |-> <<>>, ext |-> ""], <<>>,
              [abs |-> FALSE, base |-> "", sfx |-> <<>>, ext |-> ""])

\* ------------------------------------------------------------------------
\* State
\* ------------------------------------------------------------------------

VARIABLES
    ffmpegState,    \* the bundled binary: "ok", "missing" or "broken"
    command,        \* the command of this invocation
    format,         \* the FORMAT argument ("" when the command has none)
    force,          \* --force
    dry_run,        \* --dry-run
    fast,           \* --fast
    quality,        \* --quality
    input,          \* the input patterns
    fs,             \* the working directory: name -> content
    backup_dir,     \* whether ./backup exists
    bk,             \* the backup directory: name -> content
    fs0,            \* the working directory when the process started
    bk0,            \* the backup directory when the process started
    backup_dir0,    \* whether ./backup existed when the process started
    pc,             \* where the process is
    files,          \* the resolved file list
    i,              \* 1-based position in files
    ok,             \* success tally
    fail,           \* failure tally
    src,            \* the file being processed
    dst,            \* its destination
    cmd,            \* the argument vector built for it
    CREATED_FILES,  \* the process-wide list the interrupt handler reads
    exit_code,      \* exit status (-1 while running)
    report,         \* the batch summary, <<ok, fail>>, once emitted
    verified,       \* how many times verify_ffmpeg ran
    executed,       \* how many times the binary was run on an input
    written,        \* the names the binary wrote in this run
    dstOf,          \* the destination of each file started so far
    pre,            \* content of src when its iteration started
    target,         \* what backup_original returned for src
    counted         \* the current file has just been tallied as a success

cliVars == <<ffmpegState, command, format, force, dry_run, fast, quality, input>>

startVars == <<fs0, bk0, backup_dir0>>

diskVars == <<fs, backup_dir, bk>>

vars == <<ffmpegState, command, format, force, dry_run, fast, quality, input,
          fs, backup_dir, bk, fs0, bk0, backup_dir0, pc, files, i, ok, fail,
          src, dst, cmd, CREATED_FILES, exit_code, report, verified, executed,
          written, dstOf, pre, target, counted>>

\* ------------------------------------------------------------------------
\* The inputs the model draws from
\* ------------------------------------------------------------------------

BatchCommands == {"video convert", "video mute", "image convert", "image compress"}

AudioCommands == {"audio extract", "audio convert"}

Commands == BatchCommands \cup AudioCommands

A_JPG == Name("a", <<>>, "jpg")

A_PNG == Name("a", <<>>, "png")

A_MP4 == Name("a", <<>>, "mp4")

A_MP3 == Name("a", <<>>, "mp3")

A_1_JPG == Name("a", <<1>>, "jpg")

\* the files the working directory may hold at start
Universe == {A_JPG, A_1_JPG, A_PNG, A_MP4, A_MP3}

Original(n) == [of |-> n, xf |-> 0]

\* what the external binary makes of a content
Transform(c) == [of |-> c.of, xf |-> c.xf + 1]

Dir(S) == [n \in S |-> Original(n)]

NoContent == [of |-> Name("", <<>>, ""), xf |-> 0]

Lit(prefix, n) == [kind |-> "lit", prefix |-> prefix, ext |-> n.ext, path |-> Spell(prefix, n)]

Wild(prefix, ext) == [kind |-> "glob", prefix |-> prefix, ext |-> ext,
                      path |-> Spell(prefix, Name("*", <<>>, ext))]

Literals == {Lit("", A_JPG), Lit("", A_PNG), Lit("/cwd/", A_JPG)}

Patterns == Literals \cup {Wild("", "jpg")}

SeqsUpTo(S, n) == UNION {[1..k -> S] : k \in 0..n}

FormatsOf(c) ==
    CASE c = "video convert" -> {"mp4", "xyz"}
      [] c = "image convert" -> {"jpg", "xyz"}
      [] c = "audio convert" -> {"mp3", "xyz"}
      [] OTHER -> {""}

NoPath == [abs |-> FALSE, base |-> "", sfx |-> <<>>, ext |-> ""]

\* the part of the state that does not depend on the invocation
Fresh ==
    /\ pc = "start"
    /\ files = <<>>
    /\ i = 0
    /\ ok = 0
    /\ fail = 0
    /\ src = NoPath
    /\ dst = NoPath
    /\ cmd = NoCmd
    /\ CREATED_FILES = <<>>
    /\ exit_code = -1
    /\ report = <<>>
    /\ verified = 0
    /\ executed = 0
    /\ written = {}
    /\ dstOf = <<>>
    /\ pre = NoContent
    /\ target = Name("", <<>>, "")
    /\ counted = FALSE
    /\ fs0 = fs
    /\ bk0 = bk
    /\ backup_dir0 = backup_dir

Init ==
    /\ ffmpegState \in {"ok", "missing", "broken"}
    /\ command \in Commands
    /\ format \in FormatsOf(command)
    /\ force \in BOOLEAN
    /\ dry_run \in BOOLEAN
    /\ fast \in (IF command = "video convert" THEN BOOLEAN ELSE {FALSE})
    /\ quality = DEFAULT_QUALITY
    /\ input \in (IF command \in AudioCommands
                  THEN {<<l>> : l \in Literals}
                  ELSE SeqsUpTo(Patterns, MaxPatterns))
    /\ fs \in {Dir(S) : S \in SUBSET Universe}
    /\ \/ backup_dir = FALSE /\ bk = Dir({})
       \/ backup_dir = TRUE /\ bk \in {Dir({}), Dir({A_JPG})}
    /\ Fresh

\* ------------------------------------------------------------------------
\* cli(): logging, register_cleanup, resolve and verify the binary
\* ------------------------------------------------------------------------

\* a verification that lets a missing or broken binary through
verify_ffmpeg_lenient(state) == TRUE

\* verify_ffmpeg returns normally only for a binary that exists and whose
\* "-version" run exits 0; otherwise it raises ClickException
verify_ffmpeg(state) == state = "ok"

\* click reports a ClickException and exits 1; nothing else happens
Fatal ==
    /\ pc' = "fatal"
    /\ exit_code' = 1

Cli ==
    /\ pc = "start"
    /\ verified' = verified + 1
    /\ IF verify_ffmpeg(ffmpegState)
       THEN pc' = "command" /\ UNCHANGED exit_code
       ELSE Fatal
    /\ UNCHANGED <<cliVars, startVars, diskVars, files, i, ok, fail, src, dst, cmd,
                   CREATED_FILES, report, executed, written, dstOf, pre, target, counted>>

\* ------------------------------------------------------------------------
\* Entry of the batch commands: format check, input expansion
\* ------------------------------------------------------------------------

\* format.lower() not in <FORMATS>  (the model draws lower-case formats)
Supported(fmt, allowed) == fmt \in allowed

Resolve ==
    LET found == expand_inputs(input, fs)
    IN  /\ files' = found
        /\ IF found = <<>>
           THEN Fatal /\ UNCHANGED <<i, ok, fail>>
           ELSE /\ pc' = "loop"
                /\ i' = 1
                /\ ok' = 0
                /\ fail' = 0
                /\ UNCHANGED exit_code

EntryFrame ==
    UNCHANGED <<cliVars, startVars, diskVars, src, dst, cmd, CREATED_FILES, report,
                verified, executed, written, dstOf, pre, target, counted>>

VideoConvert ==
    /\ pc = "command"
    /\ command = "video convert"
    /\ IF ~Supported(format, VIDEO_FORMATS)
       THEN Fatal /\ UNCHANGED <<files, i, ok, fail>>
       ELSE Resolve
    /\ EntryFrame

VideoMute ==
    /\ pc = "command"
    /\ command = "video mute"
    /\ Resolve
    /\ EntryFrame

ImageConvert ==
    /\ pc = "command"
    /\ command = "image convert"
    /\ IF ~Supported(format, IMAGE_FORMATS)
       THEN Fatal /\ UNCHANGED <<files, i, ok, fail>>
       ELSE Resolve
    /\ EntryFrame

ImageCompress ==
    /\ pc = "command"
    /\ command = "image compress"
    /\ Resolve
    /\ EntryFrame

\* ------------------------------------------------------------------------
\* The loop bodies up to the call of run_ffmpeg
\* ------------------------------------------------------------------------

ContentAt(p, d) == IF Exists(p, d) THEN d[NameOf(p)] ELSE NoContent

\* the loop takes files[i]; its destination is d
Take(d) ==
    /\ src' = files[i]
    /\ dst' = d
    /\ dstOf' = Append(dstOf, d)
    /\ pre' = ContentAt(files[i], fs)
    /\ counted' = FALSE

\* "Skipping existing file": fail += 1; continue
Skip ==
    /\ fail' = fail + 1
    /\ i' = i + 1
    /\ UNCHANGED <<pc, cmd, ok>>

\* the command line is built; run_ffmpeg is called next
Call(c) ==
    /\ cmd' = c
    /\ pc' = "run"
    /\ UNCHANGED <<i, ok, fail>>

FileFrame ==
    UNCHANGED <<cliVars, startVars, diskVars, files, CREATED_FILES, exit_code, report,
                verified, executed, written, target>>

\* a collision check that ignores the disk
Blocked_never(d, forced, disk) == FALSE

\* dst.exists() and not force
Blocked(d, forced, disk) == Exists(d, disk) /\ ~forced

VideoConvertFile ==
    /\ pc = "loop"
    /\ command = "video convert"
    /\ i <= Len(files)
    /\ LET s == files[i]
           d == WithFormat(s, format)
       IN  /\ Take(d)
           /\ IF Blocked(d, force, fs) THEN Skip ELSE Call(VideoConvertCmd(s, d, fast))
    /\ FileFrame

VideoMuteFile ==
    /\ pc = "loop"
    /\ command = "video mute"
    /\ i <= Len(files)
    /\ LET s == files[i]
           d == s
       IN  /\ Take(d)
           /\ IF Blocked(d, force, fs) THEN Skip ELSE Call(VideoMuteCmd(s, d))
    /\ FileFrame

ImageConvertFile ==
    /\ pc = "loop"
    /\ command = "image convert"
    /\ i <= Len(files)
    /\ LET s == files[i]
           d0 == WithFormat(s, format)
           d == IF Blocked(d0, force, fs) THEN suggest_path(d0, fs) ELSE d0
       IN  /\ Take(d)
           /\ Call(ImageConvertCmd(s, d))
    /\ FileFrame

ImageCompressFile ==
    /\ pc = "loop"
    /\ command = "image compress"
    /\ i <= Len(files)
    /\ LET s == files[i]
           d == IF Blocked(s, force, fs) THEN suggest_path(s, fs) ELSE s
       IN  /\ Take(d)
           /\ Call(ImageCompressCmd(s, d, quality))
    /\ FileFrame

\* ------------------------------------------------------------------------
\* The audio commands: one input, no loop, no tally
\* ------------------------------------------------------------------------

AudioFrame ==
    UNCHANGED <<cliVars, startVars, diskVars, CREATED_FILES, report, verified,
                executed, written, target, ok, fail>>

\* src = Path(input); the command works on the one-element list <<src>>
AudioTake(s, d, c) ==
    /\ files' = <<s>>
    /\ i' = 1
    /\ src' = s
    /\ dst' = d
    /\ dstOf' = <<d>>
    /\ pre' = ContentAt(s, fs)
    /\ counted' = FALSE
    /\ cmd' = c
    /\ pc' = "run"
    /\ UNCHANGED exit_code

AudioExtract ==
    /\ pc = "command"
    /\ command = "audio extract"
    /\ LET s == Path(input[1].path)
           d0 == WithSuffixMp3(s)
           d == IF Blocked(d0, force, fs) THEN suggest_path(d0, fs) ELSE d0
       IN  IF ~Exists(s, fs)
           THEN Fatal /\ UNCHANGED <<files, i, src, dst, dstOf, pre, counted, cmd>>
           ELSE AudioTake(s, d, AudioExtractCmd(s, d))
    /\ AudioFrame

AudioConvert ==
    /\ pc = "command"
    /\ command = "audio convert"
    /\ LET s == Path(input[1].path)
           d0 == WithFormat(s, format)
           d == IF Blocked(d0, force, fs) THEN suggest_path(d0, fs) ELSE d0
       IN  IF ~Supported(format, AUDIO_FORMATS) \/ ~Exists(s, fs)
           THEN Fatal /\ UNCHANGED <<files, i, src, dst, dstOf, pre, counted, cmd>>
           ELSE AudioTake(s, d, AudioConvertCmd(s, d))
    /\ AudioFrame

\* ------------------------------------------------------------------------
\* run_ffmpeg and what the commands do with its result
\* ------------------------------------------------------------------------

\* the else branch of "if run_ffmpeg(...)": the batch commands tally a failure
\* and go on, the audio commands end
Failed ==
    IF command \in BatchCommands
    THEN /\ fail' = fail + 1
         /\ i' = i + 1
         /\ pc' = "loop"
         /\ UNCHANGED <<ok, exit_code>>
    ELSE /\ pc' = "done"
         /\ exit_code' = 0
         /\ UNCHANGED <<ok, fail, i>>

\* the binary writes the destination from the source and exits 0
BinaryWrites ==
    /\ fs' = (NameOf(dst) :> Transform(fs[NameOf(src)])) @@ fs
    /\ written' = written \cup {NameOf(dst)}
    /\ UNCHANGED <<backup_dir, bk>>

RunFrame ==
    UNCHANGED <<cliVars, startVars, files, src, dst, cmd, CREATED_FILES, report,
                verified, dstOf, pre, target, counted>>

\* dry run: the command is printed, nothing runs, the result is True
RunFfmpegDry ==
    /\ pc = "run"
    /\ dry_run
    /\ pc' = "backup"
    /\ UNCHANGED <<diskVars, executed, written, i, ok, fail, exit_code>>
    /\ RunFrame

\* the binary runs and exits 0: it needs a working binary and a source to read
RunFfmpegOk ==
    /\ pc = "run"
    /\ ~dry_run
    /\ ffmpegState = "ok"
    /\ Exists(src, fs)
    /\ executed' = executed + 1
    /\ BinaryWrites
    /\ pc' = "backup"
    /\ UNCHANGED <<i, ok, fail, exit_code>>
    /\ RunFrame

\* the binary exits non-zero, or cannot be started: the result is False
RunFfmpegFail ==
    /\ pc = "run"
    /\ ~dry_run
    /\ executed' = executed + 1
    /\ Failed
    /\ UNCHANGED <<diskVars, written>>
    /\ RunFrame

\* ------------------------------------------------------------------------
\* backup_original(src), called when run_ffmpeg returned True
\* ------------------------------------------------------------------------

\* an exception leaves the loop body: image compress catches it per file,
\* the other commands let it end the process
Raised ==
    IF command = "image compress"
    THEN /\ fail' = fail + 1
         /\ i' = i + 1
         /\ pc' = "loop"
         /\ UNCHANGED <<ok, exit_code>>
    ELSE /\ pc' = "crashed"
         /\ exit_code' = 1
         /\ UNCHANGED <<ok, fail, i>>

Without(d, n) == [x \in (DOMAIN d) \ {n} |-> d[x]]

BackupFrame ==
    UNCHANGED <<cliVars, startVars, files, src, dst, cmd, CREATED_FILES, report,
                verified, executed, written, dstOf, pre, counted>>

\* mkdir, pick the free name, rename
BackupOriginal ==
    /\ pc = "backup"
    /\ Exists(src, fs)
    /\ LET t == BackupTarget(src, bk)
       IN  /\ backup_dir' = TRUE
           /\ target' = t
           /\ bk' = (t :> fs[NameOf(src)]) @@ bk
           /\ fs' = Without(fs, NameOf(src))
    /\ pc' = "record"
    /\ UNCHANGED <<i, ok, fail, exit_code>>
    /\ BackupFrame

\* backup_original raises OSError: mkdir does (a file named backup is in the
\* way, or the directory is read-only), or the directory is made and rename
\* does (the source is gone, or the operating system refuses the move)
BackupOriginalRaises ==
    /\ pc = "backup"
    /\ \/ ~backup_dir /\ backup_dir' = FALSE
       \/ backup_dir' = TRUE
    /\ Raised
    /\ UNCHANGED <<fs, bk, target>>
    /\ BackupFrame

\* CREATED_FILES.append(dst); ok += 1
Record ==
    /\ pc = "record"
    /\ CREATED_FILES' = Append(CREATED_FILES, dst)
    /\ counted' = TRUE
    /\ IF command \in BatchCommands
       THEN /\ ok' = ok + 1
            /\ i' = i + 1
            /\ pc' = "loop"
            /\ UNCHANGED <<fail, exit_code>>
       ELSE /\ pc' = "done"
            /\ exit_code' = 0
            /\ UNCHANGED <<ok, fail, i>>
    /\ UNCHANGED <<cliVars, startVars, diskVars, files, src, dst, cmd, report,
                   verified, executed, written, dstOf, pre, target>>

\* the loop is over: "Completed -> Success: ok | Failed: fail"
Summary ==
    /\ pc = "loop"
    /\ i > Len(files)
    /\ report' = <<ok, fail>>
    /\ pc' = "done"
    /\ exit_code' = 0
    /\ UNCHANGED <<cliVars, startVars, diskVars, files, i, ok, fail, src, dst, cmd,
                   CREATED_FILES, verified, executed, written, dstOf, pre, target, counted>>

\* ------------------------------------------------------------------------
\* The interrupt handler installed by register_cleanup
\* ------------------------------------------------------------------------

RECURSIVE Unlink(_, _)
Unlink(created, d) ==
    IF created = <<>> THEN d
    ELSE Unlink(Tail(created),
                IF Exists(Head(created), d) THEN Without(d, NameOf(Head(created))) ELSE d)

Running == pc \in {"command", "loop", "run", "backup", "record"}

\* SIGINT or SIGTERM between any two steps of the main path
Interrupt ==
    /\ Running
    /\ fs' = Unlink(CREATED_FILES, fs)
    /\ pc' = "interrupted"
    /\ exit_code' = EXIT_INTERRUPT
    /\ UNCHANGED <<cliVars, startVars, backup_dir, bk, files, i, ok, fail, src, dst, cmd,
                   CREATED_FILES, report, verified, executed, written, dstOf, pre,
                   target, counted>>

\* ------------------------------------------------------------------------
\* The process
\* ------------------------------------------------------------------------

Next ==
    \/ Cli
    \/ VideoConvert
    \/ VideoMute
    \/ ImageConvert
    \/ ImageCompress
    \/ VideoConvertFile
    \/ VideoMuteFile
    \/ ImageConvertFile
    \/ ImageCompressFile
    \/ AudioExtract
    \/ AudioConvert
    \/ RunFfmpegDry
    \/ RunFfmpegOk
    \/ RunFfmpegFail
    \/ BackupOriginal
    \/ BackupOriginalRaises
    \/ Record
    \/ Summary
    \/ Interrupt

Spec == Init /\ [][Next]_vars

\* ------------------------------------------------------------------------
\* Specifications of the pure helpers: the inputs are drawn, the helper runs
\* ------------------------------------------------------------------------

\* everything a helper specification does not draw
Idle ==
    /\ ffmpegState = "ok"
    /\ format = ""
    /\ force = FALSE
    /\ dry_run = FALSE
    /\ fast = FALSE
    /\ quality = DEFAULT_QUALITY
    /\ backup_dir = FALSE
    /\ bk = Dir({})
    /\ files = <<>>
    /\ i = 0
    /\ ok = 0
    /\ fail = 0
    /\ dst = NoPath
    /\ cmd = NoCmd
    /\ CREATED_FILES = <<>>
    /\ exit_code = -1
    /\ report = <<>>
    /\ verified = 0
    /\ executed = 0
    /\ written = {}
    /\ dstOf = <<>>
    /\ pre = NoContent
    /\ target = Name("", <<>>, "")
    /\ counted = FALSE
    /\ fs0 = fs
    /\ bk0 = bk
    /\ backup_dir0 = backup_dir

HelperFrame ==
    UNCHANGED <<cliVars, startVars, diskVars, i, ok, fail, cmd, CREATED_FILES,
                exit_code, report, verified, executed, written, dstOf, pre, target,
                counted>>

\* suggest_path(d) for an existing d --------------------------------------

SuggestUniverse ==
    {A_JPG, Name("b", <<>>, "jpg"), Name("a", <<1, 1>>, "jpg")}
        \cup {Name("a", <<k>>, "jpg") : k \in 1..MaxSuffix}

InitSuggest ==
    /\ command = "suggest_path"
    /\ input = <<>>
    /\ fs \in {Dir(S) : S \in SUBSET SuggestUniverse}
    /\ src \in {[abs |-> a, base |-> n.base, sfx |-> n.sfx, ext |-> n.ext] :
                    a \in BOOLEAN, n \in DOMAIN fs}
    /\ pc = "suggest"
    /\ Idle

Suggest ==
    /\ pc = "suggest"
    /\ dst' = suggest_path(src, fs)
    /\ pc' = "suggested"
    /\ UNCHANGED <<files, src>>
    /\ HelperFrame

NextSuggest == Suggest

SpecSuggest == InitSuggest /\ [][NextSuggest]_vars

\* expand_inputs(patterns) ------------------------------------------------

Prefixes == {"", "./", "/cwd/"}

ExpandPatterns ==
    {Lit(p, n) : p \in Prefixes, n \in {A_JPG, A_PNG}} \cup {Wild(p, "jpg") : p \in Prefixes}

InitExpand ==
    /\ command = "expand_inputs"
    /\ input \in SeqsUpTo(ExpandPatterns, MaxExpand)
    /\ fs \in {Dir(S) : S \in SUBSET {A_JPG, A_1_JPG, A_PNG}}
    /\ src = NoPath
    /\ pc = "expand"
    /\ Idle

Expand ==
    /\ pc = "expand"
    /\ files' = expand_inputs(input, fs)
    /\ pc' = "expanded"
    /\ UNCHANGED <<src, dst>>
    /\ HelperFrame

NextExpand == Expand

SpecExpand == InitExpand /\ [][NextExpand]_vars

\* image compress over the whole quality range ----------------------------

InitQuality ==
    /\ ffmpegState = "ok"
    /\ command = "image compress"
    /\ format = ""
    /\ force \in BOOLEAN
    /\ dry_run \in BOOLEAN
    /\ fast = FALSE
    /\ quality \in 0..MaxQuality
    /\ input \in {<<Lit("", A_JPG)>>, <<Lit("", A_PNG)>>}
    /\ fs = Dir({A_JPG, A_PNG})
    /\ backup_dir = FALSE
    /\ bk = Dir({})
    /\ Fresh

NextQuality ==
    \/ Cli
    \/ ImageCompress
    \/ ImageCompressFile
    \/ RunFfmpegDry
    \/ RunFfmpegOk
    \/ RunFfmpegFail
    \/ BackupOriginal
    \/ BackupOriginalRaises
    \/ Record
    \/ Summary
    \/ Interrupt

SpecQuality == InitQuality /\ [][NextQuality]_vars

\* ------------------------------------------------------------------------
\* Properties
\* ------------------------------------------------------------------------

Started == 1..Len(dstOf)

\* the original of a resolved file is no longer at its path
SourceGone(p) == ~Exists(p, fs) \/ fs[NameOf(p)] # fs0[NameOf(p)]

\* C1: in every batch command a failure on one file never stops the batch:
\* no exception ends the process, and the batch reaches Done with
\* succeeded + failed equal to the number of resolved files.
C1_BatchNeverStops ==
    command \in BatchCommands =>
        /\ pc # "crashed"
        /\ (pc = "done" => report = <<ok, fail>> /\ ok + fail = Len(files))

\* C2: in every reachable state, a source file of this run that is no longer
\* at its original path has its destination file on disk.
C2_OutputBeforeBackup ==
    \A k \in Started : SourceGone(files[k]) => Exists(dstOf[k], fs)

\* C3: with --dry-run nothing on the filesystem changes: the binary is never
\* executed, no destination is created, no source is moved and no backup
\* directory is created.
C3_DryRunTouchesNothing ==
    dry_run => /\ executed = 0
               /\ fs = fs0
               /\ bk = bk0
               /\ backup_dir = backup_dir0

\* C4: after an interrupt of a batch the exit status is 130, every destination file the
\* binary wrote in this run is gone, and nothing else was deleted (a file
\* missing from the directory was written by this run or is a source the run
\* took up).
C4_InterruptDeletesCreated ==
    (command \in BatchCommands /\ pc = "interrupted") =>
        /\ exit_code = EXIT_INTERRUPT
        /\ \A n \in written : n \notin DOMAIN fs
        /\ \A n \in (DOMAIN fs0) \ (DOMAIN fs) :
               n \in written \/ \E k \in Started : NameOf(files[k]) = n

\* C5: after a file is counted as a success, its pre-transform content is at
\* the path backup_original returned, the original is no longer at the source
\* path, and everything that was in the backup directory is still there.
C5_BackupHoldsOriginal ==
    counted =>
        /\ target \in DOMAIN bk
        /\ bk[target] = pre
        /\ (~Exists(src, fs) \/ fs[NameOf(src)] # pre)
        /\ \A n \in DOMAIN bk0 : n \in DOMAIN bk /\ bk[n] = bk0[n]

\* a name of the directory matches an input pattern
Matches(item, n) ==
    IF item.kind = "glob" THEN n.ext = item.ext
    ELSE n = [base |-> item.path.base, sfx |-> item.path.sfx, ext |-> item.path.ext]

NoneResolves == \A k \in 1..Len(input) : \A n \in DOMAIN fs0 : ~Matches(input[k], n)

FormatRejected ==
    \/ command = "video convert" /\ format \notin VIDEO_FORMATS
    \/ command = "image convert" /\ format \notin IMAGE_FORMATS
    \/ command = "audio convert" /\ format \notin AUDIO_FORMATS

\* the run has worked on a file, changed the disk or reported a batch
Touched ==
    \/ pc \in {"loop", "run", "backup", "record", "done", "crashed"}
    \/ executed > 0
    \/ written # {}
    \/ fs # fs0
    \/ bk # bk0
    \/ backup_dir # backup_dir0
    \/ CREATED_FILES # <<>>
    \/ dstOf # <<>>
    \/ report # <<>>

\* C6: the binary is verified exactly once, before anything else; with a
\* missing or broken binary, an unsupported format or no resolved input the
\* run ends fatally without running the binary on an input, creating a
\* destination, moving a source or emitting a summary.
C6_FatalBeforeAnyWork ==
    /\ verified = (IF pc = "start" THEN 0 ELSE 1)
    /\ (ffmpegState # "ok" \/ FormatRejected \/ NoneResolves) =>
           /\ ~Touched
           /\ pc \in {"start", "command", "fatal", "interrupted"}
    /\ pc = "fatal" => ~Touched /\ exit_code = 1

C6_Witness ==
    /\ pc = "fatal"
    /\ verified = 1
    /\ ffmpegState = "ok"
    /\ command = "video convert"
    /\ ~FormatRejected
    /\ input # <<>>
    /\ NoneResolves
    /\ fs # Dir({})

\* the destination before any collision handling, per command
PlainDst(c, s) ==
    CASE c = "video convert" -> WithFormat(s, format)
      [] c = "image convert" -> WithFormat(s, format)
      [] c = "audio convert" -> WithFormat(s, format)
      [] c = "audio extract" -> [s EXCEPT !.ext = "mp3"]
      [] OTHER -> s

\* d is p when p is free, else p with the smallest free suffix _k
FirstFree(d, p, disk) ==
    IF ~Exists(p, disk) THEN d = p
    ELSE \E k \in 1..(Cardinality(DOMAIN disk) + 1) :
            /\ d = [p EXCEPT !.sfx = p.sfx \o <<k>>]
            /\ ~Exists(d, disk)
            /\ \A j \in 1..(k - 1) : Exists([p EXCEPT !.sfx = p.sfx \o <<j>>], disk)

SkipsOnCollision == {"video convert", "video mute"}

C8_QualityRounded ==
    (pc = "run" /\ command = "image compress" /\ src.ext # "png" /\ quality \in 0..100) =>
        LET r == (2 * (100 - quality) + 3) \div 6
            q == IF r < 2 THEN 2 ELSE IF r > 31 THEN 31 ELSE r
        IN  cmd.opts = <<"-q:v", ToString(q)>>

\* C8 amended: for quality in 0..100 and a non-PNG source the -q:v argument is
\* clamp(2, 31, floor((100 - quality) / 3)); quality 70 yields 10.
C8_QualityTruncated ==
    (pc = "run" /\ command = "image compress" /\ src.ext # "png" /\ quality \in 0..100) =>
        LET t == (100 - quality) \div 3
            q == IF t < 2 THEN 2 ELSE IF t > 31 THEN 31 ELSE t
        IN  /\ cmd.opts = <<"-q:v", ToString(q)>>
            /\ quality = 70 => cmd.opts[2] = "10"

C8_Witness ==
    /\ pc = "run"
    /\ command = "image compress"
    /\ src.ext = "jpg"
    /\ quality = 50
    /\ cmd.opts = <<"-q:v", "16">>

\* C9: for an existing d, suggest_path(d) does not exist, is not d, and is d
\* with the smallest positive k whose <stem>_k<ext> is free.
C9_SuggestFirstFree ==
    pc = "suggested" =>
        /\ ~Exists(dst, fs)
        /\ dst # src
        /\ \E k \in 1..(Cardinality(DOMAIN fs) + 1) :
              /\ dst = [src EXCEPT !.sfx = src.sfx \o <<k>>]
              /\ \A j \in 1..(k - 1) : Exists([src EXCEPT !.sfx = src.sfx \o <<j>>], fs)

\* a.jpg, a_1.jpg and a_1_1.jpg exist: a_1.jpg gets a_1_2.jpg, not a_2.jpg
C9_Witness ==
    /\ pc = "suggested"
    /\ src.sfx = <<1>>
    /\ dst.sfx = <<1, 2>>

\* C10: expand returns each distinct existing file at most once, in the order
\* of its first match; nothing else; empty exactly when no pattern resolves.
C10_EachFileOnce ==
    pc = "expanded" =>
        /\ \A a, b \in 1..Len(files) : a # b => NameOf(files[a]) # NameOf(files[b])
        /\ \A a \in 1..Len(files) : Exists(files[a], fs)
        /\ (files = <<>>) = NoneResolves

====
